---------------------------- MODULE Spec2Model ----------------------------
(***************************************************************************)
(* Discounting engine of src/descuento.py:                                 *)
(*   interpolar_factor_descuento  - log-linear interpolation on a curve    *)
(*   calcular_valor_presente      - present value, CURVA or YIELD method   *)
(*                                                                         *)
(* Instants (datetime.date, datetime.datetime, pd.Timestamp) are integers  *)
(* counted in ticks, TicksPorDia ticks to the day; an instant is a whole   *)
(* day (a datetime.date, a midnight Timestamp) when it is a multiple of    *)
(* TicksPorDia.  Timedelta.days is the floor of the difference in days.    *)
(*                                                                         *)
(* Floats are modelled over the reals: a year fraction and a logarithm are *)
(* exact rationals, a discount factor is a tagged value (a curve factor in *)
(* thousandths, the exponential of a rational, or NaN), and a present      *)
(* value is the ordered list of the terms added to 0.0.                    *)
(***************************************************************************)
EXTENDS Integers, Sequences, FiniteSets, TLC

VARIABLES
    flujos_caja,         \* argument: sequence of <<timing, monto>>
    fecha_valoracion,    \* argument: instant or None
    metodo,              \* argument: "CURVA", "YIELD" or another value
    df_curva,            \* argument: sequence of [Date, Discount] rows, or None
    spread_credito,      \* argument: spread in basis points
    yield_anual,         \* argument: yield in basis points, or None
    frecuencia,          \* argument: compounding frequency
    flujos_como_fechas,  \* argument: BOOLEAN
    fecha_flujo,         \* argument of interpolar_factor_descuento / loop variable
    pc,                  \* position in the running function
    idx,                 \* number of flows the loop has examined
    valor_presente,      \* the accumulator: the terms added to 0.0, in order
    llamadas,            \* calls made to interpolar_factor_descuento, in order
    resultado            \* what the function returned or raised

vars == << flujos_caja, fecha_valoracion, metodo, df_curva, spread_credito,
           yield_anual, frecuencia, flujos_como_fechas, fecha_flujo,
           pc, idx, valor_presente, llamadas, resultado >>

\* an optional argument is the empty set (None) or the set of its one value
None == {}
Algo(x) == {x}
De(opt) == CHOOSE x \in opt : TRUE

\* no exception, no message
Nada == ""

-----------------------------------------------------------------------------
(* Bounds of the model *)

TicksPorDia == 3
MaxFecha == 9
MaxCurva == 3
MaxFlujos == 2
MaxTiempo == 1
MaxFechaFlujo == 4

(* ACT/365 *)
DiasPorAno == 365

Fechas == 0..MaxFecha
Factores == {1000, 970, 950}

EsDiaEntero(t) == t % TicksPorDia = 0

-----------------------------------------------------------------------------
(* Rational arithmetic for year fractions and logarithms *)

RECURSIVE MCD(_, _)
MCD(a, b) == IF b = 0 THEN a ELSE MCD(b, a % b)

Abs(a) == IF a < 0 THEN -a ELSE a

\* a rational in lowest terms with a positive denominator
Rat(n, d) ==
    LET s == IF d < 0 THEN -1 ELSE 1
        g == MCD(Abs(n), Abs(d))
    IN  [num |-> (s * n) \div g, den |-> (s * d) \div g]

RatSuma(a, b) == Rat(a.num * b.den + b.num * a.den, a.den * b.den)
RatResta(a, b) == Rat(a.num * b.den - b.num * a.den, a.den * b.den)
RatProd(a, b) == Rat(a.num * b.num, a.den * b.den)
RatDiv(a, b) == Rat(a.num * b.den, a.den * b.num)
RatMenor(a, b) == a.num * b.den < b.num * a.den

-----------------------------------------------------------------------------
(* Float values *)

\* a float value: a curve factor num/den, exp(num/den), (bnum/bden) ** (num/den), or NaN
Valor(t, n, d, bn, bd) == [tipo |-> t, num |-> n, den |-> d, bnum |-> bn, bden |-> bd]

NaN == Valor("nan", 0, 1, 0, 1)
Uno == Valor("factor", 1000, 1000, 0, 1)

\* float(row['Discount']): the curve factor itself, in thousandths
Factor(f) == Valor("factor", f, 1000, 0, 1)

\* np.log of a curve factor, in units of 1e-4 (rounded natural logarithms)
np_log(f) ==
    CASE f = 1000 -> Rat(0, 10000)
      [] f = 970  -> Rat(-305, 10000)
      [] f = 950  -> Rat(-513, 10000)
      [] f = 900  -> Rat(-1054, 10000)

\* np.exp of a rational: exp(0) is exactly 1.0, any other value stays symbolic
np_exp(r) == IF r.num = 0 THEN Uno ELSE Valor("exp", r.num, r.den, 0, 1)

\* the natural logarithm of a float value that is not NaN
LogDe(v) == IF v.tipo = "factor" THEN np_log(v.num) ELSE Rat(v.num, v.den)

\* v < w for two float values that are not NaN (exp and log are increasing)
ValorMenor(v, w) == RatMenor(LogDe(v), LogDe(w))

-----------------------------------------------------------------------------
(* interpolar_factor_descuento *)

\* (a - b).days: whole days of a difference of instants, rounded down
Dias(a, b) == (a - b) \div TicksPorDia

\* the day count divided by 365 as integers
Plazo_entero(a, b) == Rat(Dias(a, b) \div DiasPorAno, 1)

\* (a - b).days / 365.0
Plazo(a, b) == Rat(Dias(a, b), DiasPorAno)

\* a comparison that also accepts the earlier rows
coincidencia_hasta(fecha, curva) == SelectSeq(curva, LAMBDA p : p.Date <= fecha)

\* line 32: df_curva[df_curva['Date'] == fecha_flujo_dt]
coincidencia(fecha, curva) == SelectSeq(curva, LAMBDA p : p.Date = fecha)
puntos_anteriores(fecha, curva) == SelectSeq(curva, LAMBDA p : p.Date < fecha)
puntos_posteriores(fecha, curva) == SelectSeq(curva, LAMBDA p : p.Date > fecha)

\* the earliest of the earlier rows instead of the nearest
punto_1_primero(fecha, curva) == puntos_anteriores(fecha, curva)[1]

\* puntos_anteriores.iloc[-1]
punto_1(fecha, curva) ==
    LET s == puntos_anteriores(fecha, curva) IN s[Len(s)]

\* puntos_posteriores.iloc[0]
punto_2(fecha, curva) == puntos_posteriores(fecha, curva)[1]

\* line 45: df_curva['Discount'].iloc[0]
primer_factor(curva) == curva[1].Discount

\* the first row's factor where the last row's is meant
ultimo_factor_primero(curva) == curva[1].Discount

\* line 50: df_curva['Discount'].iloc[-1]
ultimo_factor(curva) == curva[Len(curva)].Discount

\* the branch of the function the arguments select
Rama(fecha, curva) ==
    IF coincidencia(fecha, curva) # << >> THEN "coincidencia"
    ELSE IF puntos_anteriores(fecha, curva) = << >>
         THEN IF curva = << >> THEN "IndexError" ELSE "anterior"
    ELSE IF puntos_posteriores(fecha, curva) = << >> THEN "posterior"
    ELSE "interpolacion"

\* the formula started from ln(df2) instead of ln(df1)
LogLineal_desde_df2(fecha, p1, p2, valoracion) ==
    LET T1 == Plazo(p1.Date, valoracion)
        T2 == Plazo(p2.Date, valoracion)
        T_flujo == Plazo(fecha, valoracion)
        log_df1 == np_log(p1.Discount)
        log_df2 == np_log(p2.Discount)
    IN  IF RatResta(T2, T1).num = 0
        THEN NaN
        ELSE np_exp(RatSuma(log_df2,
                 RatProd(RatResta(log_df2, log_df1),
                         RatDiv(RatResta(T_flujo, T1), RatResta(T2, T1)))))

\* lines 62-75: the log-linear formula on the bracket p1, p2
LogLineal(fecha, p1, p2, valoracion) ==
    LET T1 == Plazo(p1.Date, valoracion)
        T2 == Plazo(p2.Date, valoracion)
        T_flujo == Plazo(fecha, valoracion)
        log_df1 == np_log(p1.Discount)
        log_df2 == np_log(p2.Discount)
    IN  IF RatResta(T2, T1).num = 0
        THEN NaN    \* 0.0 / 0.0 on numpy floats: nan, no exception
        ELSE np_exp(RatSuma(log_df1,
                 RatProd(RatResta(log_df2, log_df1),
                         RatDiv(RatResta(T_flujo, T1), RatResta(T2, T1)))))

NoPunto == [Date |-> -1, Discount |-> 0]

\* the outcome of a call: what is returned or raised, and the bracket used
interpolar_factor_descuento(fecha, curva, valoracion) ==
    LET rama == Rama(fecha, curva)
        ret(v, p1, p2) == [tipo |-> "return", rama |-> rama, valor |-> v,
                           error |-> Nada, p1 |-> p1, p2 |-> p2]
    IN  CASE rama = "coincidencia" ->
               ret(Factor(coincidencia(fecha, curva)[1].Discount), NoPunto, NoPunto)
          [] rama = "IndexError" ->
               [tipo |-> "raise", rama |-> rama, valor |-> NaN,
                error |-> "IndexError", p1 |-> NoPunto, p2 |-> NoPunto]
          [] rama = "anterior" ->
               ret(Factor(primer_factor(curva)), NoPunto, NoPunto)
          [] rama = "posterior" ->
               ret(Factor(ultimo_factor(curva)), NoPunto, NoPunto)
          [] rama = "interpolacion" ->
               LET p1 == punto_1(fecha, curva)
                   p2 == punto_2(fecha, curva)
               IN  ret(LogLineal(fecha, p1, p2, valoracion), p1, p2)


-----------------------------------------------------------------------------
(* calcular_valor_presente *)

\* the validation without the check of flujos_como_fechas for CURVA
Validar_sin_formato(m, curva, comoFechas, valoracion, y) ==
    IF m = "CURVA" THEN
        IF curva = None THEN "Se requiere 'df_curva' para el metodo CURVA"
        ELSE IF valoracion = None THEN "Se requiere 'fecha_valoracion' para el metodo CURVA"
        ELSE "ok"
    ELSE IF m = "YIELD" THEN
        IF y = None THEN "Se requiere 'yield_anual' para el metodo YIELD"
        ELSE IF comoFechas /\ valoracion = None
             THEN "Se requiere 'fecha_valoracion' cuando flujos_como_fechas=True"
        ELSE "ok"
    ELSE "Metodo de descuento no reconocido"

\* lines 146-153, 179-182, 186-189, 217-218: the ValueError raised, or "ok"
Validar(m, curva, comoFechas, valoracion, y) ==
    IF m = "CURVA" THEN
        IF curva = None THEN "Se requiere 'df_curva' para el metodo CURVA"
        ELSE IF ~comoFechas THEN "El metodo CURVA requiere flujos_como_fechas=True"
        ELSE IF valoracion = None THEN "Se requiere 'fecha_valoracion' para el metodo CURVA"
        ELSE "ok"
    ELSE IF m = "YIELD" THEN
        IF y = None THEN "Se requiere 'yield_anual' para el metodo YIELD"
        ELSE IF comoFechas /\ valoracion = None
             THEN "Se requiere 'fecha_valoracion' cuando flujos_como_fechas=True"
        ELSE "ok"
    ELSE "Metodo de descuento no reconocido"

\* a ** b on floats: x ** 0.0 and 1.0 ** x are exactly 1.0
Potencia(base, exponente) ==
    IF exponente.num = 0 \/ base = Rat(1, 1) THEN Uno
    ELSE Valor("potencia", exponente.num, exponente.den, base.num, base.den)

\* the float factors of a product or quotient, 1.0 dropped (x * 1.0 = x / 1.0 = x)
SinUno(v) == IF v = Uno THEN << >> ELSE << v >>

\* one addend of valor_presente: monto * por[1] * ... / entre[1]
Termino(monto, por, entre) == [monto |-> monto, por |-> por, entre |-> entre]

\* no flow is filtered
FlujoPasado_nunca(fecha, valoracion) == FALSE

\* the cutoff of the time-shaped flows applied to the dates
FlujoPasado_o_presente(fecha, valoracion) == fecha <= valoracion

\* line 159, line 193: the date-shaped cutoff
FlujoPasado(fecha, valoracion) == fecha < valoracion

\* line 207: the time-shaped cutoff
TiempoPasado(tiempo_anos) == tiempo_anos <= 0

\* lines 168-175: monto_flujo * (df_curva_flujo * np.exp(-spread_credito * plazo_anos))
TerminoCurva(fecha, monto, df_curva_flujo, valoracion, spread) ==
    LET plazo_anos == Plazo(fecha, valoracion)
        ajuste == np_exp(RatProd(Rat(-spread, 10000), plazo_anos))
    IN  Termino(monto, SinUno(df_curva_flujo) \o SinUno(ajuste), << >>)

\* lines 201-202, 212-213: monto_flujo / (1 + yield_anual / frecuencia) ** (tiempo_anos * frecuencia)
TerminoYield(tiempo_anos, monto, y, frec) ==
    LET factor_descuento ==
            Potencia(RatSuma(Rat(1, 1), Rat(y, 10000 * frec)),
                     RatProd(tiempo_anos, Rat(frec, 1)))
    IN  Termino(monto, << >>, SinUno(factor_descuento))

\* the loop state: the accumulator, the interpolator calls, the exception raised
Estado(vp, ll, err) == [valor_presente |-> vp, llamadas |-> ll, error |-> err]

\* the interpolator called before the filter
PasoCurva_llama_antes(e, flujo, curva, valoracion, spread) ==
    LET r == interpolar_factor_descuento(flujo[1], curva, valoracion)
        ll == Append(e.llamadas, << flujo[1], curva, valoracion >>)
    IN  IF r.tipo = "raise"
        THEN Estado(e.valor_presente, ll, r.error)
        ELSE IF FlujoPasado(flujo[1], valoracion)
        THEN Estado(e.valor_presente, ll, Nada)
        ELSE Estado(Append(e.valor_presente,
                           TerminoCurva(flujo[1], flujo[2], r.valor, valoracion, spread)),
                    ll, Nada)

\* lines 157-175: one iteration of the CURVA loop
PasoCurva(e, flujo, curva, valoracion, spread) ==
    IF FlujoPasado(flujo[1], valoracion) THEN e
    ELSE LET r == interpolar_factor_descuento(flujo[1], curva, valoracion)
             ll == Append(e.llamadas, << flujo[1], curva, valoracion >>)
         IN  IF r.tipo = "raise"
             THEN Estado(e.valor_presente, ll, r.error)
             ELSE Estado(Append(e.valor_presente,
                                TerminoCurva(flujo[1], flujo[2], r.valor, valoracion, spread)),
                         ll, Nada)

\* lines 191-202: one iteration of the date-shaped YIELD loop
PasoYieldFechas(e, flujo, valoracion, y, frec) ==
    IF FlujoPasado(flujo[1], valoracion) THEN e
    ELSE Estado(Append(e.valor_presente,
                       TerminoYield(Plazo(flujo[1], valoracion), flujo[2], y, frec)),
                e.llamadas, Nada)

\* lines 205-213: one iteration of the time-shaped YIELD loop
PasoYieldTiempos(e, flujo, y, frec) ==
    IF TiempoPasado(flujo[1]) THEN e
    ELSE Estado(Append(e.valor_presente,
                       TerminoYield(Rat(flujo[1], 1), flujo[2], y, frec)),
                e.llamadas, Nada)

\* the arguments of a call, as one record
Args(valoracion, m, curva, spread, y, frec, comoFechas) ==
    [fecha_valoracion |-> valoracion, metodo |-> m, df_curva |-> curva,
     spread_credito |-> spread, yield_anual |-> y, frecuencia |-> frec,
     flujos_como_fechas |-> comoFechas]

Paso(e, flujo, a) ==
    IF a.metodo = "CURVA"
    THEN PasoCurva(e, flujo, De(a.df_curva), De(a.fecha_valoracion), a.spread_credito)
    ELSE IF a.flujos_como_fechas
    THEN PasoYieldFechas(e, flujo, De(a.fecha_valoracion), De(a.yield_anual), a.frecuencia)
    ELSE PasoYieldTiempos(e, flujo, De(a.yield_anual), a.frecuencia)

Lanza(err, msg) == [tipo |-> "raise", error |-> err, mensaje |-> msg, valor |-> << >>]
Retorna(vp) == [tipo |-> "return", error |-> Nada, mensaje |-> Nada, valor |-> vp]

\* the loop from flow i on: it stops at the first exception
RECURSIVE Bucle(_, _, _, _)
Bucle(e, flujos, i, a) ==
    IF e.error # Nada THEN e
    ELSE IF i > Len(flujos) THEN e
    ELSE Bucle(Paso(e, flujos[i], a), flujos, i + 1, a)

\* the whole function: what a call returns or raises
calcular_valor_presente(flujos, a) ==
    LET v == Validar(a.metodo, a.df_curva, a.flujos_como_fechas,
                     a.fecha_valoracion, a.yield_anual)
    IN  IF v # "ok" THEN Lanza("ValueError", v)
        ELSE LET e == Bucle(Estado(<< >>, << >>, Nada), flujos, 1, a)
             IN  IF e.error # Nada THEN Lanza(e.error, Nada)
                 ELSE Retorna(e.valor_presente)

-----------------------------------------------------------------------------
(* The inputs *)

\* valuation instants: a midnight, an instant within that day, the next midnight
FechasValoracion == {0, 1, TicksPorDia}

Puntos == [Date : Fechas, Discount : Factores]

\* curves as the caller builds them: rows in ascending date order with factors
\* that do not increase; a date may be repeated, and the curve may have no rows
Ordenada(c) ==
    \A i \in 1..(Len(c) - 1) :
        c[i].Date <= c[i + 1].Date /\ c[i].Discount >= c[i + 1].Discount

\* the ordered curves of n rows, each an ordered curve of n - 1 rows and one more row
RECURSIVE CurvasDe(_)
CurvasDe(n) ==
    IF n = 0 THEN { << >> }
    ELSE { d \in { Append(c, p) : c \in CurvasDe(n - 1), p \in Puntos } : Ordenada(d) }

Curvas == UNION { CurvasDe(n) : n \in 0..MaxCurva }

\* the curves of the valuations: two pivots a few days apart, one pivot, no row
CurvasValoracion ==
    { << [Date |-> 0, Discount |-> 1000], [Date |-> MaxFecha, Discount |-> 950] >>,
      << [Date |-> TicksPorDia, Discount |-> 970] >>,
      << >> }

Montos == {100, -40}
FechasFlujo == 0..MaxFechaFlujo
Tiempos == (-1)..MaxTiempo

Calendarios(timings) == UNION { [1..n -> timings \X Montos] : n \in 0..MaxFlujos }

-----------------------------------------------------------------------------
(* interpolar_factor_descuento called on its own *)

InitInterp ==
    /\ fecha_flujo \in Fechas
    /\ df_curva \in { Algo(c) : c \in Curvas }
    /\ fecha_valoracion \in { Algo(v) : v \in FechasValoracion }
    /\ pc = "interpolar"
    /\ resultado = Nada
    /\ flujos_caja = << >>
    /\ metodo = "CURVA"
    /\ spread_credito = 0
    /\ yield_anual = None
    /\ frecuencia = 2
    /\ flujos_como_fechas = TRUE
    /\ idx = 0
    /\ valor_presente = << >>
    /\ llamadas = << >>

\* the call runs to its return or its raise
Termina ==
    /\ resultado' = interpolar_factor_descuento(fecha_flujo, De(df_curva), De(fecha_valoracion))
    /\ pc' = "interpolado"
    /\ UNCHANGED << flujos_caja, fecha_valoracion, metodo, df_curva, spread_credito,
                    yield_anual, frecuencia, flujos_como_fechas, fecha_flujo,
                    idx, valor_presente, llamadas >>

\* lines 32-34
CoincidenciaExacta ==
    /\ pc = "interpolar"
    /\ Rama(fecha_flujo, De(df_curva)) = "coincidencia"
    /\ Termina

\* lines 42-45, on a curve with rows
ExtrapolarAnterior ==
    /\ pc = "interpolar"
    /\ Rama(fecha_flujo, De(df_curva)) = "anterior"
    /\ Termina

\* line 45 on a curve with no rows: iloc[0] raises IndexError
CurvaVacia ==
    /\ pc = "interpolar"
    /\ Rama(fecha_flujo, De(df_curva)) = "IndexError"
    /\ Termina

\* lines 47-50
ExtrapolarPosterior ==
    /\ pc = "interpolar"
    /\ Rama(fecha_flujo, De(df_curva)) = "posterior"
    /\ Termina

\* lines 52-77
Interpolar ==
    /\ pc = "interpolar"
    /\ Rama(fecha_flujo, De(df_curva)) = "interpolacion"
    /\ Termina

NextInterp ==
    \/ CoincidenciaExacta
    \/ ExtrapolarAnterior
    \/ CurvaVacia
    \/ ExtrapolarPosterior
    \/ Interpolar

SpecInterp == InitInterp /\ [][NextInterp]_vars

-----------------------------------------------------------------------------
(* calcular_valor_presente, one step per validation, per flow and per return *)

\* the shapes of a call: each method with its own parameters, the others left
\* at their defaults, and a method value that is neither
Init ==
    /\ pc = "validar"
    /\ idx = 0
    /\ valor_presente = << >>
    /\ llamadas = << >>
    /\ resultado = Nada
    /\ fecha_flujo = 0
    /\ flujos_como_fechas \in BOOLEAN
    /\ flujos_caja \in Calendarios(IF flujos_como_fechas THEN FechasFlujo ELSE Tiempos)
    /\ fecha_valoracion \in {None} \cup { Algo(v) : v \in FechasValoracion }
    /\ \/ /\ metodo = "CURVA"
          /\ df_curva \in {None} \cup { Algo(c) : c \in CurvasValoracion }
          /\ spread_credito \in {0, 100}
          /\ yield_anual = None
          /\ frecuencia = 2
       \/ /\ metodo = "YIELD"
          /\ df_curva = None
          /\ spread_credito = 0
          /\ yield_anual \in {None, Algo(0), Algo(400)}
          /\ frecuencia \in {1, 2, 4}
       \/ /\ metodo = "OTRO"
          /\ df_curva = None
          /\ spread_credito = 0
          /\ yield_anual = None
          /\ frecuencia = 2

args == Args(fecha_valoracion, metodo, df_curva, spread_credito, yield_anual,
             frecuencia, flujos_como_fechas)

Entradas == << flujos_caja, fecha_valoracion, metodo, df_curva, spread_credito,
               yield_anual, frecuencia, flujos_como_fechas >>

\* the validation of the selected method: raise, or enter its loop
Entra ==
    LET v == Validar(metodo, df_curva, flujos_como_fechas, fecha_valoracion, yield_anual)
    IN  /\ IF v = "ok"
           THEN /\ pc' = "bucle"
                /\ resultado' = resultado
           ELSE /\ pc' = "raised"
                /\ resultado' = Lanza("ValueError", v)
        /\ UNCHANGED << Entradas, fecha_flujo, idx, valor_presente, llamadas >>

\* lines 146-155
ValidarCurva ==
    /\ pc = "validar"
    /\ metodo = "CURVA"
    /\ Entra

\* lines 179-189
ValidarYield ==
    /\ pc = "validar"
    /\ metodo = "YIELD"
    /\ Entra

\* lines 217-218
MetodoNoReconocido ==
    /\ pc = "validar"
    /\ metodo \notin {"CURVA", "YIELD"}
    /\ Entra

\* one iteration of the running loop on flow idx + 1
Itera ==
    LET flujo == flujos_caja[idx + 1]
        e == Paso(Estado(valor_presente, llamadas, Nada), flujo, args)
    IN  /\ fecha_flujo' = flujo[1]
        /\ idx' = idx + 1
        /\ valor_presente' = e.valor_presente
        /\ llamadas' = e.llamadas
        /\ IF e.error = Nada
           THEN /\ pc' = pc
                /\ resultado' = resultado
           ELSE /\ pc' = "raised"
                /\ resultado' = Lanza(e.error, Nada)
        /\ UNCHANGED Entradas

EnBucle(m, comoFechas) ==
    /\ pc = "bucle"
    /\ idx < Len(flujos_caja)
    /\ metodo = m
    /\ flujos_como_fechas = comoFechas

\* lines 157-160
SaltarFlujoCurva ==
    /\ EnBucle("CURVA", TRUE)
    /\ FlujoPasado(flujos_caja[idx + 1][1], De(fecha_valoracion))
    /\ Itera

\* lines 157-175
DescontarFlujoCurva ==
    /\ EnBucle("CURVA", TRUE)
    /\ ~FlujoPasado(flujos_caja[idx + 1][1], De(fecha_valoracion))
    /\ Itera

\* lines 191-194
SaltarFlujoFecha ==
    /\ EnBucle("YIELD", TRUE)
    /\ FlujoPasado(flujos_caja[idx + 1][1], De(fecha_valoracion))
    /\ Itera

\* lines 191-202
DescontarFlujoFecha ==
    /\ EnBucle("YIELD", TRUE)
    /\ ~FlujoPasado(flujos_caja[idx + 1][1], De(fecha_valoracion))
    /\ Itera

\* lines 205-208
SaltarFlujoTiempo ==
    /\ EnBucle("YIELD", FALSE)
    /\ TiempoPasado(flujos_caja[idx + 1][1])
    /\ Itera

\* lines 205-213
DescontarFlujoTiempo ==
    /\ EnBucle("YIELD", FALSE)
    /\ ~TiempoPasado(flujos_caja[idx + 1][1])
    /\ Itera

\* line 177, line 215
Retornar ==
    /\ pc = "bucle"
    /\ idx = Len(flujos_caja)
    /\ pc' = "returned"
    /\ resultado' = Retorna(valor_presente)
    /\ UNCHANGED << Entradas, fecha_flujo, idx, valor_presente, llamadas >>

Next ==
    \/ ValidarCurva
    \/ ValidarYield
    \/ MetodoNoReconocido
    \/ SaltarFlujoCurva
    \/ DescontarFlujoCurva
    \/ SaltarFlujoFecha
    \/ DescontarFlujoFecha
    \/ SaltarFlujoTiempo
    \/ DescontarFlujoTiempo
    \/ Retornar

Spec == Init /\ [][Next]_vars

-----------------------------------------------------------------------------
(* Properties of interpolar_factor_descuento, under SpecInterp *)

CurvaDada == De(df_curva)
ValoracionDada == De(fecha_valoracion)
Interpolado == pc = "interpolado"
SinDuplicados(c) == \A i \in 1..(Len(c) - 1) : c[i].Date < c[i + 1].Date

\* C1: on a curve sorted ascending without duplicate dates, a query on the
\* date of a curve point (d, f) - first, last or interior - returns f itself
\* through the exact-match branch, whatever the valuation date.
C1_CoincidenciaExacta ==
    (Interpolado /\ SinDuplicados(CurvaDada)) =>
        \A i \in 1..Len(CurvaDada) :
            CurvaDada[i].Date = fecha_flujo =>
                /\ resultado.tipo = "return"
                /\ resultado.rama = "coincidencia"
                /\ resultado.valor = Factor(CurvaDada[i].Discount)

\* an interior point of a three-point curve was queried
C1_Testigo ==
    /\ Interpolado
    /\ SinDuplicados(CurvaDada)
    /\ Len(CurvaDada) = 3
    /\ CurvaDada[2].Date = fecha_flujo
    /\ CurvaDada[2].Discount # CurvaDada[1].Discount
    /\ resultado.valor = Factor(CurvaDada[2].Discount)

\* C2: on a non-empty curve, a query before every curve date returns the first
\* point's factor and a query after every curve date the last point's; a
\* single-point curve returns its one factor for every query date.
C2_ExtrapolacionPlana ==
    (Interpolado /\ Len(CurvaDada) >= 1) =>
        /\ (\A i \in 1..Len(CurvaDada) : fecha_flujo < CurvaDada[i].Date) =>
               (resultado.tipo = "return" /\ resultado.valor = Factor(CurvaDada[1].Discount))
        /\ (\A i \in 1..Len(CurvaDada) : fecha_flujo > CurvaDada[i].Date) =>
               (resultado.tipo = "return" /\ resultado.valor = Factor(CurvaDada[Len(CurvaDada)].Discount))
        /\ Len(CurvaDada) = 1 =>
               (resultado.tipo = "return" /\ resultado.valor = Factor(CurvaDada[1].Discount))

\* a query after the last of three points with different factors
C2_Testigo ==
    /\ Interpolado
    /\ Len(CurvaDada) = 3
    /\ fecha_flujo > CurvaDada[3].Date
    /\ CurvaDada[3].Discount # CurvaDada[1].Discount
    /\ resultado.rama = "posterior"
    /\ resultado.valor = Factor(CurvaDada[3].Discount)

\* C9: when the interior interpolation is used, the bracket is the curve point
\* with the greatest date strictly before the query and the one with the least
\* date strictly after it: t1 < query < t2 and no curve date lies between.
C9_Horquilla ==
    (Interpolado /\ resultado.rama = "interpolacion") =>
        /\ \E i \in 1..Len(CurvaDada) : CurvaDada[i] = resultado.p1
        /\ \E i \in 1..Len(CurvaDada) : CurvaDada[i] = resultado.p2
        /\ resultado.p1.Date < fecha_flujo
        /\ fecha_flujo < resultado.p2.Date
        /\ \A i \in 1..Len(CurvaDada) :
               ~(resultado.p1.Date < CurvaDada[i].Date /\ CurvaDada[i].Date < resultado.p2.Date)

\* a query between the second and third point of a three-point curve
C9_Testigo ==
    /\ Interpolado
    /\ resultado.rama = "interpolacion"
    /\ Len(CurvaDada) = 3
    /\ CurvaDada[1].Date < CurvaDada[2].Date
    /\ resultado.p1 = CurvaDada[2]
    /\ resultado.p2 = CurvaDada[3]

TodoDiasEnteros == \A i \in 1..Len(CurvaDada) : EsDiaEntero(CurvaDada[i].Date)
TieneDuplicados == \E i \in 1..(Len(CurvaDada) - 1) : CurvaDada[i].Date = CurvaDada[i + 1].Date

\* C10: with whole-day curve dates (repeated or not) and a whole-day query,
\* for every valuation instant, the interpolation formula is reached only with
\* T2 - T1 > 0; a query on a repeated curve date takes the exact-match branch.
C10_SinDivisionPorCero ==
    (Interpolado /\ TodoDiasEnteros /\ EsDiaEntero(fecha_flujo)) =>
        /\ resultado.rama = "interpolacion" =>
               /\ RatMenor(Plazo(resultado.p1.Date, ValoracionDada),
                           Plazo(resultado.p2.Date, ValoracionDada))
               /\ resultado.valor.tipo # "nan"
        /\ (\E i \in 1..Len(CurvaDada) : CurvaDada[i].Date = fecha_flujo) =>
               resultado.rama = "coincidencia"

\* an interpolation on a curve with a repeated date, valued within a day
C10_Testigo ==
    /\ Interpolado
    /\ TodoDiasEnteros
    /\ EsDiaEntero(fecha_flujo)
    /\ TieneDuplicados
    /\ ~EsDiaEntero(ValoracionDada)
    /\ resultado.rama = "interpolacion"

IntervaloNulo ==
    /\ resultado.rama = "interpolacion"
    /\ Plazo(resultado.p1.Date, ValoracionDada) = Plazo(resultado.p2.Date, ValoracionDada)

\* C7: when the interior interpolation is reached with T2 = T1, the function
\* raises a dedicated DegenerateInterval error and returns no NaN.
C7_IntervaloDegenerado ==
    (Interpolado /\ IntervaloNulo) =>
        (resultado.tipo = "raise" /\ resultado.error = "DegenerateInterval")


FactoresDecrecientes(c) == \A i \in 1..(Len(c) - 1) : c[i].Discount > c[i + 1].Discount

\* the factor the function returns for another query date q
FactorEn(q) == interpolar_factor_descuento(q, CurvaDada, ValoracionDada)

\* q is interpolated between the same pivots as the query of this call
MismaHorquilla(q) ==
    /\ FactorEn(q).rama = "interpolacion"
    /\ FactorEn(q).p1 = resultado.p1
    /\ FactorEn(q).p2 = resultado.p2

\* the result lies strictly between df2 and df1, the weight strictly between 0
\* and 1, and the queries q of Q after this one get a strictly smaller factor
EntrePivotesYDecreciente(Q) ==
    /\ resultado.valor.tipo # "nan"
    /\ ValorMenor(Factor(resultado.p2.Discount), resultado.valor)
    /\ ValorMenor(resultado.valor, Factor(resultado.p1.Discount))
    /\ RatMenor(Plazo(resultado.p1.Date, ValoracionDada), Plazo(fecha_flujo, ValoracionDada))
    /\ RatMenor(Plazo(fecha_flujo, ValoracionDada), Plazo(resultado.p2.Date, ValoracionDada))
    /\ \A q \in Q :
           (fecha_flujo < q /\ MismaHorquilla(q)) =>
               (FactorEn(q).valor.tipo # "nan" /\ ValorMenor(FactorEn(q).valor, resultado.valor))

CurvaMonotona ==
    /\ Interpolado
    /\ resultado.rama = "interpolacion"
    /\ SinDuplicados(CurvaDada)
    /\ FactoresDecrecientes(CurvaDada)

\* C6 as stated: on a curve of strictly increasing dates and strictly decreasing
\* factors, every query strictly between two adjacent pivots gets a factor
\* strictly between df2 and df1, strictly decreasing in the query date.
\* (Stated here for the intervals of non-zero width only, so that a violation
\* does not rest on the division by zero of C7.)
C6_Original == (CurvaMonotona /\ ~IntervaloNulo) => EntrePivotesYDecreciente(Fechas)

DiasEnteros == { t \in Fechas : EsDiaEntero(t) }

\* C6 amended: the same, for pivots and query dates that are whole days (any
\* valuation instant): the day counts of t1 < query < t2 are then distinct.
C6_InterpolacionMonotona ==
    (/\ CurvaMonotona
     /\ EsDiaEntero(resultado.p1.Date)
     /\ EsDiaEntero(resultado.p2.Date)
     /\ EsDiaEntero(fecha_flujo)) => EntrePivotesYDecreciente(DiasEnteros)

\* a whole-day query with a later whole-day query between the same pivots of a
\* three-point curve
C6_Testigo ==
    /\ CurvaMonotona
    /\ ~EsDiaEntero(ValoracionDada)
    /\ EsDiaEntero(resultado.p1.Date)
    /\ EsDiaEntero(resultado.p2.Date)
    /\ EsDiaEntero(fecha_flujo)
    /\ \E q \in DiasEnteros : fecha_flujo < q /\ MismaHorquilla(q)
    /\ resultado.valor.tipo = "exp"

-----------------------------------------------------------------------------
(* Properties of calcular_valor_presente, under Spec *)

Terminado == pc \in {"returned", "raised"}

\* the requests the validation must refuse
PeticionInvalida ==
    \/ /\ metodo = "CURVA"
       /\ (df_curva = None \/ ~flujos_como_fechas \/ fecha_valoracion = None)
    \/ /\ metodo = "YIELD"
       /\ (yield_anual = None \/ (flujos_como_fechas /\ fecha_valoracion = None))
    \/ metodo \notin {"CURVA", "YIELD"}

\* C3: a request that lacks a parameter its method requires, or names an
\* unknown method, is refused with an error before any flow is examined and
\* before any call of the interpolator, and never returns a sum, whatever the
\* schedule holds.
C3_ValidacionPrimero ==
    PeticionInvalida =>
        /\ pc \in {"validar", "raised"}
        /\ idx = 0
        /\ llamadas = << >>
        /\ valor_presente = << >>
        /\ pc = "raised" => (resultado.tipo = "raise" /\ resultado.error = "ValueError")

\* a CURVA request with time-shaped flows and a curve was refused
C3_Testigo ==
    /\ pc = "raised"
    /\ metodo = "CURVA"
    /\ df_curva # None
    /\ fecha_valoracion # None
    /\ ~flujos_como_fechas
    /\ Len(flujos_caja) = MaxFlujos
    /\ resultado.error = "ValueError"

\* the flow is one the contract excludes
Excluido(flujo) ==
    IF flujos_como_fechas THEN flujo[1] < De(fecha_valoracion) ELSE flujo[1] <= 0

NoExcluido(flujo) == ~Excluido(flujo)

\* C4: in a valid request the outcome is that of the same request with the
\* past flows (date < valuation date; T <= 0 when time-shaped) removed, and a
\* schedule with no other flow has present value 0.
C4_FlujosPasadosExcluidos ==
    (Terminado /\ ~PeticionInvalida) =>
        /\ resultado = calcular_valor_presente(SelectSeq(flujos_caja, NoExcluido), args)
        /\ (\A i \in 1..Len(flujos_caja) : Excluido(flujos_caja[i])) =>
               resultado = Retorna(<< >>)

\* a schedule of a past flow and a future flow was valued
C4_Testigo ==
    /\ pc = "returned"
    /\ Len(flujos_caja) = 2
    /\ Excluido(flujos_caja[1])
    /\ ~Excluido(flujos_caja[2])
    /\ Len(resultado.valor) = 1

\* C5: a date-shaped flow dated on the valuation date is not skipped (in the
\* CURVA method the interpolator is called for it); in the YIELD method it is
\* discounted with T = 0 and DF = 1 and adds exactly its amount, for every
\* yield and frequency; a time-shaped YIELD flow with T = 0 is skipped and
\* adds nothing.
C5_CortesDistintos ==
    [][ (pc = "bucle" /\ idx' = idx + 1) =>
          LET flujo == flujos_caja[idx + 1] IN
            /\ (metodo = "CURVA" /\ flujo[1] = De(fecha_valoracion)) =>
                   llamadas' = Append(llamadas,
                                      << flujo[1], De(df_curva), De(fecha_valoracion) >>)
            /\ (metodo = "YIELD" /\ flujos_como_fechas /\ flujo[1] = De(fecha_valoracion)) =>
                   /\ Plazo(flujo[1], De(fecha_valoracion)) = Rat(0, 1)
                   /\ valor_presente' = Append(valor_presente, Termino(flujo[2], << >>, << >>))
            /\ (metodo = "YIELD" /\ ~flujos_como_fechas /\ flujo[1] = 0) =>
                   valor_presente' = valor_presente ]_vars

\* a flow dated on the valuation date was discounted at a 4% yield
C5_Testigo ==
    /\ pc = "bucle"
    /\ metodo = "YIELD"
    /\ flujos_como_fechas
    /\ yield_anual = Algo(400)
    /\ frecuencia = 4
    /\ idx = 1
    /\ flujos_caja[1][1] = De(fecha_valoracion)
    /\ valor_presente = << Termino(flujos_caja[1][2], << >>, << >>) >>

\* the calls due for the flows examined so far: one per flow not before the
\* valuation date, in schedule order, with the flow's date, the caller's curve
\* and the valuation date
RECURSIVE LlamadasDebidas(_)
LlamadasDebidas(n) ==
    IF n = 0 THEN << >>
    ELSE IF flujos_caja[n][1] < De(fecha_valoracion)
         THEN LlamadasDebidas(n - 1)
         ELSE Append(LlamadasDebidas(n - 1),
                     << flujos_caja[n][1], De(df_curva), De(fecha_valoracion) >>)

\* C8: in a valid CURVA request the interpolator is called once per flow dated on
\* or after the valuation date, in schedule order, with that flow's date, the
\* curve and the valuation date, and never for a skipped flow; a returned
\* valuation made as many calls as it has such flows; a YIELD request makes none.
C8_PatronDeLlamadas ==
    /\ (metodo = "CURVA" /\ ~PeticionInvalida) =>
           /\ llamadas = LlamadasDebidas(idx)
           /\ pc = "returned" =>
                  (idx = Len(flujos_caja)
                   /\ Len(llamadas) = Len(SelectSeq(flujos_caja, NoExcluido)))
    /\ metodo # "CURVA" => llamadas = << >>

\* a returned CURVA valuation of a skipped flow followed by a discounted one
C8_Testigo ==
    /\ pc = "returned"
    /\ metodo = "CURVA"
    /\ Len(flujos_caja) = 2
    /\ Excluido(flujos_caja[1])
    /\ Len(llamadas) = 1
    /\ llamadas[1][1] = flujos_caja[2][1]

=============================================================================
